---- MODULE Spec2Model ----
(***************************************************************************)
(* Model of the Open WebUI installer (openwebui_installer/installer.py).   *)
(*                                                                         *)
(* The state is what the Installer reads and writes outside the process:   *)
(* the config directory (config.json, the logs directory, the launch       *)
(* script), the container named "open-webui" and the volume of that name.  *)
(* Every public operation is one action.  installer.py holds unresolved    *)
(* merge conflicts, so several operations have more than one body; each    *)
(* side of a conflict is modelled as its own definition, named after the   *)
(* method and the branch it comes from, and a build may hold any of them.  *)
(* Failures of the engine, of subprocesses and of file I/O are inputs of   *)
(* the operations (a Fault names the call that fails and what it raises).  *)
(***************************************************************************)
EXTENDS Integers, Sequences, FiniteSets, TLC

VARIABLES config, container, volume, configDir, logsDir, launchScript, last,
          procs, plist, agent, dest, handlers

vars == <<config, container, volume, configDir, logsDir, launchScript, last,
          procs, plist, agent, dest, handlers>>

(***************************************************************************)
(* Input domains.                                                          *)
(***************************************************************************)
webui_image == "ghcr.io/open-webui/open-webui:main"
CustomImage == "custom:tag"
(* The model/port pairs install is called with: pair i is the i-th model   *)
(* name on port 2999 + i.                                                  *)
NumArgs == 2
ModelNames == <<"llama2", "mistral", "phi3", "gemma">>
FirstPort == 3000
ModelPorts == {<<ModelNames[i], FirstPort + i - 1>> : i \in 1..NumArgs}
ImageArgs == {"None", CustomImage}
DefaultPort == 3000
ConfigVersion == "0.1.0"

NoConfig == [exists |-> FALSE, valid |-> FALSE, version |-> "None",
             model |-> "None", port |-> 0, image |-> "None"]
CorruptConfig == [NoConfig EXCEPT !.exists = TRUE]
NoContainer == [exists |-> FALSE, status |-> "none", image |-> "None", port |-> 0]

(* One call the installer makes on the engine, a subprocess or the disk.   *)
(* free: no container named "open-webui" existed when the call was made.   *)
Call(c, i, p, m) ==
  [call |-> c, image |-> i, port |-> p, model |-> m, free |-> TRUE]

(* A fault: the call named `at` raises `exc`.  NoFault: every call works.  *)
Fault(a, e) == [at |-> a, exc |-> e]
NoFault == Fault("none", "none")
EngineCalls == {"status_get", "pull", "get", "stop", "remove", "run_create",
                "run_start", "start", "restart", "vol_get", "vol_remove",
                "logs"}
EngineExcs == {"APIError", "Exception"}
Faults == {NoFault}
          \cup {Fault(a, e) : a \in EngineCalls, e \in EngineExcs}
          \cup {Fault("model_pull", e) :
                  e \in {"TimeoutExpired", "CalledProcessError", "Exception"}}
          \cup {Fault(a, "Exception") :
                  a \in {"script_write", "config_open", "config_dump",
                         "config_read", "rmtree", "plist_write",
                         "from_env"}}
          \cup {Fault("launchctl", "CalledProcessError")}

(***************************************************************************)
(* The world an operation runs in, and a running computation over it:      *)
(* w is the world so far, exc the exception in flight ("none" while the    *)
(* code runs normally), calls the mutating calls made so far.              *)
(***************************************************************************)
(* plist: the login-agent descriptor under ~/Library/LaunchAgents exists;   *)
(* agent: launchctl has loaded it.                                         *)
World == [config |-> config, container |-> container, volume |-> volume,
          configDir |-> configDir, logsDir |-> logsDir,
          launchScript |-> launchScript, plist |-> plist, agent |-> agent]

Begin(w) == [w |-> w, exc |-> "none", calls |-> <<>>]
Ok(r) == r.exc = "none"
Raise(r, e) == [r EXCEPT !.exc = e]
Log(r, c) == [r EXCEPT !.calls = Append(@, c)]

(* except <classes>: raise <e>   (e = "none" is `pass` / `return`)         *)
Catch(r, classes, e) == IF r.exc \in classes THEN [r EXCEPT !.exc = e] ELSE r

(* docker.errors: NotFound is an APIError; every exception is an Exception *)
NotFoundOnly == {"NotFound"}
APIErrors == {"NotFound", "APIError"}
AnyException == {"NotFound", "APIError", "Exception", "TimeoutExpired",
                 "CalledProcessError", "InstallerError",
                 "SystemRequirementsError"}

(***************************************************************************)
(* The container engine client (docker SDK), as the installer calls it.    *)
(***************************************************************************)
ImagesPull(r, f, image) ==
  IF ~Ok(r) THEN r
  ELSE LET r1 == Log(r, Call("images.pull", image, 0, "-"))
       IN IF image = "None" THEN Raise(r1, "Exception")
          ELSE IF f.at = "pull" THEN Raise(r1, f.exc) ELSE r1

ContainersGet(r, f) ==
  IF ~Ok(r) THEN r
  ELSE IF f.at = "get" THEN Raise(r, f.exc)
  ELSE IF ~r.w.container.exists THEN Raise(r, "NotFound")
  ELSE r

ContainerStop(r, f) ==
  IF ~Ok(r) THEN r
  ELSE LET r1 == Log(r, Call("container.stop", "-", 0, "-"))
       IN IF f.at = "stop" THEN Raise(r1, f.exc)
          ELSE [r1 EXCEPT !.w.container.status = "exited"]

ContainerRemoveWithVolume(r, f) ==
  IF ~Ok(r) THEN r
  ELSE [Log(r, Call("container.remove", "-", 0, "-"))
          EXCEPT !.w.container = NoContainer, !.w.volume = FALSE]

ContainerRemove(r, f) ==
  IF ~Ok(r) THEN r
  ELSE LET r1 == Log(r, Call("container.remove", "-", 0, "-"))
       IN IF f.at = "remove" THEN Raise(r1, f.exc)
          ELSE [r1 EXCEPT !.w.container = NoContainer]

ContainerStart(r, f) ==
  IF ~Ok(r) THEN r
  ELSE LET r1 == Log(r, Call("container.start", "-", 0, "-"))
       IN IF f.at = "start" THEN Raise(r1, f.exc)
          ELSE [r1 EXCEPT !.w.container.status = "running"]

ContainerRestart(r, f) ==
  IF ~Ok(r) THEN r
  ELSE LET r1 == Log(r, Call("container.restart", "-", 0, "-"))
       IN IF f.at = "restart" THEN Raise(r1, f.exc)
          ELSE [r1 EXCEPT !.w.container.status = "running"]

(* containers.run(image, name="open-webui", ports={"8080/tcp": port},      *)
(* volumes={"open-webui": ...}, detach=True): create, then start.  The     *)
(* engine refuses no image and a name already in use; a failure of the     *)
(* start half leaves the created container (and its volume) behind.        *)
ContainersRun(r, f, image, port) ==
  IF ~Ok(r) THEN r
  ELSE LET r1 == Log(r, [Call("containers.run", image, port, "-")
                           EXCEPT !.free = ~r.w.container.exists])
           made(s) == [r1 EXCEPT
                         !.w.container = [exists |-> TRUE, status |-> s,
                                          image |-> image, port |-> port],
                         !.w.volume = TRUE]
       IN IF image = "None" \/ r.w.container.exists THEN Raise(r1, "APIError")
          ELSE IF f.at = "run_create" THEN Raise(r1, f.exc)
          ELSE IF f.at = "run_start" THEN Raise(made("created"), f.exc)
          ELSE made("running")

VolumesGet(r, f) ==
  IF ~Ok(r) THEN r
  ELSE IF f.at = "vol_get" THEN Raise(r, f.exc)
  ELSE IF ~r.w.volume THEN Raise(r, "NotFound")
  ELSE r

VolumeRemove(r, f) ==
  IF ~Ok(r) THEN r
  ELSE LET r1 == Log(r, Call("volume.remove", "-", 0, "-"))
       IN IF f.at = "vol_remove" THEN Raise(r1, f.exc)
          ELSE [r1 EXCEPT !.w.volume = FALSE]

(***************************************************************************)
(* Files under config_dir.                                                 *)
(***************************************************************************)
(* os.makedirs(log_dir, exist_ok=True): creates config_dir and logs.       *)
_setup_logger(w) == [w EXCEPT !.configDir = TRUE, !.logsDir = TRUE]

(* os.makedirs(config_dir, exist_ok=True)                                  *)
_ensure_config_dir(r) ==
  IF ~Ok(r) THEN r ELSE [r EXCEPT !.w.configDir = TRUE]

(* open(launch_script, "w"); write; chmod                                  *)
_create_launch_script(r, f, port, image) ==
  IF ~Ok(r) THEN r
  ELSE LET r1 == Log(r, Call("write_launch_script", image, port, "-"))
       IN IF f.at = "script_write" THEN Raise(r1, f.exc)
          ELSE [r1 EXCEPT !.w.launchScript = TRUE]

(* open(config.json, "w") truncates the file; json.dump then writes it.    *)
(* A failure of open leaves the old file, a failure of the dump leaves a   *)
(* truncated file that json.load rejects.                                  *)
WrongPortConfig(model, port, image) ==
  [exists |-> TRUE, valid |-> TRUE, version |-> ConfigVersion,
   model |-> model, port |-> DefaultPort, image |-> image]

NewConfig(model, port, image) ==
  [exists |-> TRUE, valid |-> TRUE, version |-> ConfigVersion,
   model |-> model, port |-> port, image |-> image]

_write_config(r, f, model, port, image) ==
  IF ~Ok(r) THEN r
  ELSE LET r1 == Log(r, Call("write_config", image, port, model))
       IN IF f.at = "config_open" THEN Raise(r1, f.exc)
          ELSE IF f.at = "config_dump"
                 THEN Raise([r1 EXCEPT !.w.config = CorruptConfig], f.exc)
          ELSE [r1 EXCEPT !.w.config = NewConfig(model, port, image)]

(* config["image"] = image; open(config_file, "w"); json.dump(config)      *)
RewriteConfigImage(r, f, image) ==
  IF ~Ok(r) THEN r
  ELSE LET r1 == Log(r, Call("write_config", image, r.w.config.port,
                             r.w.config.model))
       IN IF f.at = "config_open" THEN Raise(r1, f.exc)
          ELSE IF f.at = "config_dump"
                 THEN Raise([r1 EXCEPT !.w.config = CorruptConfig], f.exc)
          ELSE [r1 EXCEPT !.w.config.image = image]

(* with open(config_file) as f: config = json.load(f)                      *)
LoadConfig(r, f) ==
  IF ~Ok(r) THEN r
  ELSE IF f.at = "config_read" \/ ~r.w.config.exists \/ ~r.w.config.valid
         THEN Raise(r, "Exception")
  ELSE r

(* config.get(key, default) on the loaded file                             *)
ConfigImage(w) == IF w.config.image = "None" THEN webui_image ELSE w.config.image
ConfigPort(w) == IF w.config.port = 0 THEN DefaultPort ELSE w.config.port

RmTreeLogsOnly(r, f) ==
  IF ~Ok(r) THEN r
  ELSE [Log(r, Call("rmtree", "-", 0, "-")) EXCEPT !.w.logsDir = FALSE]

(* shutil.rmtree(config_dir)                                               *)
RmTree(r, f) ==
  IF ~Ok(r) THEN r
  ELSE LET r1 == Log(r, Call("rmtree", "-", 0, "-"))
       IN IF f.at = "rmtree" THEN Raise(r1, f.exc)
          ELSE [r1 EXCEPT !.w.configDir = FALSE, !.w.logsDir = FALSE,
                          !.w.launchScript = FALSE, !.w.config = NoConfig]

(***************************************************************************)
(* get_status.  The two sides of the conflict differ in whether the image  *)
(* of the config is copied into the status ("placeholder") or the status   *)
(* keeps image = None ("logging").                                         *)
(***************************************************************************)
GsVariants == {"logging", "placeholder"}

NotInstalledStatus ==
  [installed |-> FALSE, version |-> "None", port |-> 0, model |-> "None",
   image |-> "None", running |-> FALSE]

InstalledStatus(w, gsv) ==
  [installed |-> TRUE, version |-> w.config.version, port |-> w.config.port,
   model |-> w.config.model,
   image |-> IF gsv = "placeholder" THEN w.config.image ELSE "None",
   running |-> FALSE]

get_status_lookup_first(w, f, gsv) ==
  LET w1 == _setup_logger(w)
      st == IF w1.config.exists /\ w1.config.valid
              THEN InstalledStatus(w1, gsv) ELSE NotInstalledStatus
  IN IF f.at = "status_get"
       THEN [w |-> w1, exc |-> f.exc, status |-> st]
     ELSE [w |-> w1, exc |-> "none",
           status |-> [st EXCEPT !.running = (w1.container.status = "running")]]

get_status(w, f, gsv) ==
  LET w1 == _setup_logger(w)
      st == InstalledStatus(w1, gsv)
  IN IF ~w1.config.exists
       THEN [w |-> w1, exc |-> "none", status |-> NotInstalledStatus]
     ELSE IF f.at = "config_read" \/ ~w1.config.valid
       THEN [w |-> w1, exc |-> "none", status |-> NotInstalledStatus]
     ELSE IF f.at = "status_get"
       THEN [w |-> w1, exc |-> f.exc, status |-> st]
     ELSE IF ~w1.container.exists
       THEN [w |-> w1, exc |-> "none", status |-> st]
     ELSE [w |-> w1, exc |-> "none",
           status |-> [st EXCEPT !.running = (w1.container.status = "running")]]

(* status = self.get_status() inside an operation                          *)
CallGetStatus(r, f, gsv) ==
  IF ~Ok(r) THEN r
  ELSE LET g == get_status(r.w, f, gsv)
       IN [r EXCEPT !.w = g.w, !.exc = g.exc]

StatusOf(r, f, gsv) == get_status(r.w, f, gsv).status

(***************************************************************************)
(* _check_system_requirements.  env is the host: platform.system(),        *)
(* whether sys.version_info >= (3, 9), whether docker and podman are on    *)
(* the PATH, what docker_client.ping() does and what the Ollama tags       *)
(* endpoint answers.  The OS check and the engine check are each in        *)
(* conflict between HEAD and the "enhance" branch.                         *)
(***************************************************************************)
SysVariants == {"HEAD", "enhance"}
Systems == {"Darwin", "Linux", "Windows"}
Runtimes == {"docker", "podman"}
PingOutcomes == {"ok", "DockerException", "Exception"}
OllamaOutcomes == {"200", "500", "Timeout", "ConnectionError"}

Envs == [system : Systems, python_ok : BOOLEAN, docker_cli : BOOLEAN,
         podman : BOOLEAN, ping : PingOutcomes, ollama : OllamaOutcomes]

GoodEnv == [system |-> "Darwin", python_ok |-> TRUE, docker_cli |-> TRUE,
            podman |-> FALSE, ping |-> "ok", ollama |-> "200"]

MsgOsHead == "This installer only supports macOS and Linux"
MsgOsMac == "This installer only supports macOS"
MsgPython == "Python 3.9 or higher is required"
MsgPodman == "Podman is not running or not installed"
MsgDockerPodmanHint ==
  "Docker is not running or not installed. Podman detected; use --runtime podman"
MsgDocker == "Docker is not running or not installed"
MsgDockerCli ==
  "Docker is not installed. Install Docker with our script or from https://docs.docker.com/get-docker/"
MsgDockerService ==
  "Docker service is not running. Start Docker Desktop and ensure the daemon is running."
MsgOllamaTimeout == "Timeout connecting to Ollama - check if it's running"
MsgOllama == "Ollama is not installed or not running"

Checked(exc, msg, checks) == [exc |-> exc, msg |-> msg, checks |-> checks]
SRE == "SystemRequirementsError"

CheckOllama(env, done) ==
  LET checks == Append(done, "ollama")
  IN IF env.ollama = "200" THEN Checked("none", "-", checks)
     ELSE IF env.ollama = "Timeout" THEN Checked(SRE, MsgOllamaTimeout, checks)
     ELSE Checked(SRE, MsgOllama, checks)

CheckEngineHead(env, runtime, done) ==
  LET checks == Append(done, "ping")
  IN IF env.ping = "ok" THEN CheckOllama(env, checks)
     ELSE IF runtime = "podman" THEN Checked(SRE, MsgPodman, checks)
     ELSE IF env.podman THEN Checked(SRE, MsgDockerPodmanHint, checks)
     ELSE Checked(SRE, MsgDocker, checks)

CheckEngineEnhance(env, done) ==
  IF ~env.docker_cli
    THEN Checked(SRE, MsgDockerCli, Append(done, "docker_cli"))
    ELSE LET checks == done \o <<"docker_cli", "ping">>
         IN IF env.ping = "ok" THEN CheckOllama(env, checks)
            ELSE IF env.ping = "DockerException"
                   THEN Checked(SRE, MsgDockerService, checks)
            ELSE Checked("Exception", "-", checks)

_check_system_requirements(env, runtime, osv, engv) ==
  LET osOk == IF osv = "HEAD" THEN env.system \in {"Darwin", "Linux"}
                              ELSE env.system = "Darwin"
  IN IF ~osOk
       THEN Checked(SRE, IF osv = "HEAD" THEN MsgOsHead ELSE MsgOsMac, <<"os">>)
     ELSE IF ~env.python_ok
       THEN Checked(SRE, MsgPython, <<"os", "python">>)
     ELSE IF engv = "HEAD"
       THEN CheckEngineHead(env, runtime, <<"os", "python">>)
     ELSE CheckEngineEnhance(env, <<"os", "python">>)

CallCheckRequirements(r, env, runtime, osv, engv) ==
  IF ~Ok(r) THEN r
  ELSE Raise(r, _check_system_requirements(env, runtime, osv, engv).exc)

NotInstalledYet(r, installed) ==
  IF Ok(r) /\ installed THEN Raise(r, "InstallerError") ELSE r

(* try: <body> except <classes>: raise <e>, entered only when r is normal  *)
Try(r, body, classes, e) == IF ~Ok(r) THEN r ELSE Catch(body, classes, e)

(***************************************************************************)
(* install and its helpers.  HEAD inlines the steps that the "helper"      *)
(* branch moves into _pull_webui_image ... _start_container; both sides    *)
(* make the same calls in the same order and raise InstallerError.         *)
(***************************************************************************)
_pull_webui_image(r, f, image) ==
  Try(r, ImagesPull(r, f, image), APIErrors, "InstallerError")

_pull_ollama_model(r, f, model) ==
  IF ~Ok(r) THEN r
  ELSE LET r1 == Log(r, Call("ollama.pull", "-", 0, model))
       IN Catch(IF f.at = "model_pull" THEN Raise(r1, f.exc) ELSE r1,
                {"TimeoutExpired", "CalledProcessError"}, "InstallerError")

_stop_existing_container_skipped(r, f) == r

_stop_existing_container(r, f) ==
  Try(r, Catch(ContainerRemove(ContainerStop(ContainersGet(r, f), f), f),
               NotFoundOnly, "none"),
      APIErrors, "InstallerError")

_start_container_default_image(r, f, port, image) ==
  Try(r, ContainersRun(r, f, webui_image, port), APIErrors, "InstallerError")

_start_container(r, f, port, image) ==
  Try(r, ContainersRun(r, f, image, port), APIErrors, "InstallerError")

(* in: the host, the build and the failure the call meets                  *)
Inp(f, env, runtime, osv, engv, gsv, lg) ==
  [f |-> f, env |-> env, runtime |-> runtime, osv |-> osv, engv |-> engv,
   gsv |-> gsv, lg |-> lg, sv |-> "head", tv |-> "head", rv |-> "head"]

(* if not force and self.get_status()["installed"]: raise InstallerError   *)
CheckNotInstalledNever(r, f, gsv, force) == r

CheckNotInstalled(r, f, gsv, force) ==
  IF force THEN r
  ELSE NotInstalledYet(CallGetStatus(r, f, gsv), StatusOf(r, f, gsv).installed)

install_with_rollback(w, model, port, force, image, in) ==
  LET f == in.f
      r0 == Begin(IF in.lg THEN _setup_logger(w) ELSE w)
      r1 == CheckNotInstalled(r0, f, in.gsv, force)
      r2 == CallCheckRequirements(r1, in.env, in.runtime, in.osv, in.engv)
      r3 == _ensure_config_dir(r2)
      current_webui_image == IF image # "None" THEN image ELSE webui_image
      r4 == _pull_webui_image(r3, f, current_webui_image)
      r5 == _pull_ollama_model(r4, f, model)
      r6 == _create_launch_script(r5, f, port, current_webui_image)
      r7 == _write_config(r6, f, model, port, current_webui_image)
      r8 == _stop_existing_container(r7, f)
      r9 == _start_container(r8, f, port, current_webui_image)
      r == Catch(r9, AnyException, "InstallerError")
  IN IF Ok(r) THEN r ELSE [r EXCEPT !.w = w]

install(w, model, port, force, image, in) ==
  LET f == in.f
      r0 == Begin(IF in.lg THEN _setup_logger(w) ELSE w)
      r1 == CheckNotInstalled(r0, f, in.gsv, force)
      r2 == CallCheckRequirements(r1, in.env, in.runtime, in.osv, in.engv)
      r3 == _ensure_config_dir(r2)
      current_webui_image == IF image # "None" THEN image ELSE webui_image
      r4 == _pull_webui_image(r3, f, current_webui_image)
      r5 == _pull_ollama_model(r4, f, model)
      r6 == _create_launch_script(r5, f, port, current_webui_image)
      r7 == _write_config(r6, f, model, port, current_webui_image)
      r8 == _stop_existing_container(r7, f)
      r9 == _start_container(r8, f, port, current_webui_image)
  IN Catch(r9, AnyException, "InstallerError")

(***************************************************************************)
(* uninstall: container, then the config directory, then the volume.       *)
(***************************************************************************)
uninstall_strict(w, in) ==
  LET f == in.f
      r0 == Begin(IF in.lg THEN _setup_logger(w) ELSE w)
      r1 == ContainerRemove(ContainerStop(ContainersGet(r0, f), f), f)
      r2 == IF Ok(r1) /\ r1.w.configDir THEN RmTree(r1, f) ELSE r1
      r3 == VolumeRemove(VolumesGet(r2, f), f)
  IN Catch(r3, AnyException, "InstallerError")

uninstall(w, in) ==
  LET f == in.f
      r0 == Begin(IF in.lg THEN _setup_logger(w) ELSE w)
      r1 == Catch(ContainerRemove(ContainerStop(ContainersGet(r0, f), f), f),
                  NotFoundOnly, "none")
      r2 == IF Ok(r1) /\ r1.w.configDir THEN RmTree(r1, f) ELSE r1
      r3 == Try(r2, VolumeRemove(VolumesGet(r2, f), f), NotFoundOnly, "none")
  IN Catch(r3, AnyException, "InstallerError")

(***************************************************************************)
(* start.  Seven bodies: six sides of the conflict over start() and        *)
(* start_container(port).                                                  *)
(***************************************************************************)
(* try: containers.get(name); [if status != "running":] start()            *)
GetAndStart(r, f, unlessRunning) ==
  LET g == ContainersGet(r, f)
  IN IF Ok(g) /\ unlessRunning /\ g.w.container.status = "running"
       THEN g ELSE ContainerStart(g, f)

NotInstalled(r, installed) ==
  IF Ok(r) /\ ~installed THEN Raise(r, "InstallerError") ELSE r

(* HEAD: checks the requirements, reads the config, starts or recreates    *)
start_head(w, in) ==
  LET f == in.f
      r0 == Begin(w)
      r1 == CallCheckRequirements(r0, in.env, in.runtime, in.osv, in.engv)
      r2 == LoadConfig(NotInstalled(r1, r1.w.config.exists), f)
      r3 == GetAndStart(r2, f, FALSE)
      r4 == IF Ok(r2) /\ r3.exc = "NotFound"
              THEN ContainersRun(r2, f, ConfigImage(r2.w), ConfigPort(r2.w))
              ELSE r3
  IN Catch(r4, AnyException, "InstallerError")

(* extend-...-commands: image and port come from get_status                *)
start_commands(w, in) ==
  LET f == in.f
      r0 == Begin(w)
      st == StatusOf(r0, f, in.gsv)
      r1 == CallGetStatus(r0, f, in.gsv)
      r2 == NotInstalled(r1, st.installed)
      r3 == GetAndStart(r2, f, TRUE)
      r4 == IF Ok(r2) /\ r3.exc = "NotFound"
              THEN Catch(ContainersRun(r2, f, st.image, st.port),
                         APIErrors, "InstallerError")
              ELSE r3
  IN Try(r2, r4, APIErrors, "InstallerError")

(* extend-...-methods: the run in the NotFound handler is outside the try  *)
start_methods(w, in) ==
  LET f == in.f
      r0 == Begin(w)
      r1 == CallGetStatus(r0, f, in.gsv)
      r2 == LoadConfig(NotInstalled(r1, StatusOf(r0, f, in.gsv).installed), f)
      r3 == GetAndStart(r2, f, TRUE)
  IN IF Ok(r2) /\ r3.exc = "NotFound"
       THEN ContainersRun(r2, f, ConfigImage(r2.w), ConfigPort(r2.w))
       ELSE Try(r2, r3, APIErrors, "InstallerError")

(* add-cli-methods-and-update-tests: looks at the config only when the     *)
(* container is missing                                                    *)
start_clitests(w, in) ==
  LET f == in.f
      r0 == Begin(w)
      r1 == GetAndStart(r0, f, FALSE)
      r2 == LoadConfig(NotInstalled(r0, r0.w.config.exists), f)
      r3 == Catch(ContainersRun(r2, f, ConfigImage(r2.w), ConfigPort(r2.w)),
                  APIErrors, "InstallerError")
  IN IF r1.exc = "NotFound" THEN r3 ELSE Catch(r1, APIErrors, "InstallerError")

(* replace-placeholder-commands: never recreates the container             *)
start_placeholder(w, in) ==
  LET r0 == Begin(w)
  IN Catch(GetAndStart(r0, in.f, FALSE), AnyException, "InstallerError")

(* implement-or-remove-cli-commands: nothing is caught but NotFound        *)
start_implrm(w, in) ==
  LET f == in.f
      r0 == Begin(w)
      r1 == CallGetStatus(r0, f, in.gsv)
      r2 == NotInstalled(r1, StatusOf(r0, f, in.gsv).installed)
      r3 == GetAndStart(r2, f, FALSE)
      r4 == LoadConfig(r2, f)
  IN IF Ok(r2) /\ r3.exc = "NotFound"
       THEN ContainersRun(r4, f, ConfigImage(r4.w), ConfigPort(r4.w))
       ELSE r3

(* start_container(port): port = 0 stands for None                         *)
start_container(w, port, in) ==
  LET f == in.f
      r0 == Begin(w)
      st == StatusOf(r0, f, in.gsv)
      r1 == CallGetStatus(r0, f, in.gsv)
      r2 == NotInstalled(r1, st.installed)
      port_to_use == IF port # 0 THEN port ELSE st.port
      r3 == GetAndStart(r2, f, TRUE)
      r4 == IF Ok(r2) /\ r3.exc = "NotFound"
              THEN ContainersRun(r2, f, st.image, port_to_use)
              ELSE r3
  IN Catch(r4, AnyException, "InstallerError")

StartVariants == {"head", "commands", "methods", "clitests", "placeholder",
                  "implrm"}

start(v, w, in) ==
  CASE v = "head" -> start_head(w, in)
    [] v = "commands" -> start_commands(w, in)
    [] v = "methods" -> start_methods(w, in)
    [] v = "clitests" -> start_clitests(w, in)
    [] v = "placeholder" -> start_placeholder(w, in)
    [] v = "implrm" -> start_implrm(w, in)

(***************************************************************************)
(* stop.  Six sides of the conflict over stop(), and stop_container.       *)
(***************************************************************************)
GetAndStop(r, f) == ContainerStop(ContainersGet(r, f), f)

(* HEAD: a missing container is not an error                               *)
stop_head(w, in) ==
  LET r0 == Begin(w)
  IN Catch(Catch(GetAndStop(r0, in.f), NotFoundOnly, "none"),
           AnyException, "InstallerError")

stop_clitests(w, in) ==
  LET r0 == Begin(w)
  IN Catch(GetAndStop(r0, in.f), APIErrors, "InstallerError")

stop_placeholder(w, in) ==
  LET r0 == Begin(w)
  IN Catch(GetAndStop(r0, in.f), AnyException, "InstallerError")

stop_implrm(w, in) ==
  LET r0 == Begin(w)
  IN Catch(GetAndStop(r0, in.f), NotFoundOnly, "InstallerError")

stop_commands(w, in) ==
  LET r0 == Begin(w)
  IN Catch(GetAndStop(r0, in.f), APIErrors, "InstallerError")

stop_methods(w, in) ==
  LET r0 == Begin(w)
  IN Catch(GetAndStop(r0, in.f), APIErrors, "InstallerError")

(* stop_container(remove): stops only a running container; tolerates a    *)
(* missing one                                                             *)
stop_container(w, remove, in) ==
  LET f == in.f
      r0 == Begin(w)
      r1 == ContainersGet(r0, f)
      r2 == IF Ok(r1) /\ r1.w.container.status = "running"
              THEN ContainerStop(r1, f) ELSE r1
      r3 == IF remove THEN ContainerRemove(r2, f) ELSE r2
  IN Catch(Catch(r3, NotFoundOnly, "none"), AnyException, "InstallerError")

StopVariants == {"head", "clitests", "placeholder", "implrm", "commands",
                 "methods"}

stop(v, w, in) ==
  CASE v = "head" -> stop_head(w, in)
    [] v = "clitests" -> stop_clitests(w, in)
    [] v = "placeholder" -> stop_placeholder(w, in)
    [] v = "implrm" -> stop_implrm(w, in)
    [] v = "commands" -> stop_commands(w, in)
    [] v = "methods" -> stop_methods(w, in)

(***************************************************************************)
(* restart.  HEAD is stop() then start(); the other sides ask the engine   *)
(* to restart the container.                                               *)
(***************************************************************************)
(* b runs after a: it sees a's world, and a's calls come first             *)
Then(a, b) == [b EXCEPT !.calls = a.calls \o b.calls]

GetAndRestart(r, f) == ContainerRestart(ContainersGet(r, f), f)

restart_head(w, in) ==
  LET a == stop(in.sv, w, in)
      b == IF Ok(a) THEN Then(a, start(in.tv, a.w, in)) ELSE a
  IN Catch(b, AnyException, "InstallerError")

restart_clitests(w, in) ==
  LET r0 == Begin(w)
  IN Catch(GetAndRestart(r0, in.f), APIErrors, "InstallerError")

restart_commands(w, in) ==
  LET r0 == Begin(w)
  IN Catch(GetAndRestart(r0, in.f), APIErrors, "InstallerError")

restart_methods(w, in) ==
  LET r0 == Begin(w)
  IN Catch(GetAndRestart(r0, in.f), APIErrors, "InstallerError")

restart_implrm(w, in) ==
  LET r0 == Begin(w)
  IN Catch(GetAndRestart(r0, in.f), NotFoundOnly, "InstallerError")

RestartVariants == {"head", "clitests", "commands", "methods", "implrm"}

restart(v, w, in) ==
  CASE v = "head" -> restart_head(w, in)
    [] v = "clitests" -> restart_clitests(w, in)
    [] v = "commands" -> restart_commands(w, in)
    [] v = "methods" -> restart_methods(w, in)
    [] v = "implrm" -> restart_implrm(w, in)

(***************************************************************************)
(* update.  Five bodies: recreate the container (clitests), reinstall      *)
(* with force (placeholder), pull and restart (commands, methods), pull    *)
(* and stop_container/start_container (container).                         *)
(***************************************************************************)
update_clitests(w, image, in) ==
  LET f == in.f
      r0 == Begin(w)
      r1 == CallGetStatus(r0, f, in.gsv)
      r2 == NotInstalled(r1, StatusOf(r0, f, in.gsv).installed)
      new_image == IF image # "None" THEN image ELSE webui_image
      r3 == ImagesPull(r2, f, new_image)
      r4 == RewriteConfigImage(LoadConfig(r3, f), f, new_image)
      r5 == Try(r4, ContainerRemove(ContainerStop(ContainersGet(r4, f), f), f),
                NotFoundOnly, "none")
      r6 == ContainersRun(r5, f, new_image, ConfigPort(r5.w))
  IN Catch(r6, AnyException, "InstallerError")

update_placeholder(w, image, in) ==
  LET f == in.f
      r0 == Begin(w)
      st == StatusOf(r0, f, in.gsv)
      r1 == CallGetStatus(r0, f, in.gsv)
      r2 == NotInstalled(r1, st.installed)
      current_image == IF image # "None" THEN image ELSE st.image
      r3 == IF Ok(r2)
              THEN Then(r2, install(r2.w, st.model, st.port, TRUE,
                                    current_image, in))
              ELSE r2
  IN Catch(r3, AnyException, "InstallerError")

update_commands(w, image, in) ==
  LET f == in.f
      r0 == Begin(w)
      st == StatusOf(r0, f, in.gsv)
      r1 == CallGetStatus(r0, f, in.gsv)
      r2 == NotInstalled(r1, st.installed)
      image_to_use == IF image # "None" THEN image ELSE st.image
      r3 == ImagesPull(r2, f, image_to_use)
      r4 == IF image # "None" /\ image # st.image
              THEN RewriteConfigImage(LoadConfig(r3, f), f, image)
              ELSE r3
      r5 == IF Ok(r4) THEN Then(r4, restart(in.rv, r4.w, in)) ELSE r4
  IN Try(r2, r5, APIErrors, "InstallerError")

(* update() of the methods branch takes no image                           *)
update_methods(w, image, in) ==
  LET f == in.f
      r0 == Begin(w)
      r1 == CallGetStatus(r0, f, in.gsv)
      r2 == LoadConfig(NotInstalled(r1, StatusOf(r0, f, in.gsv).installed), f)
      r3 == ImagesPull(r2, f, ConfigImage(r2.w))
      r4 == IF Ok(r3) THEN Then(r3, restart(in.rv, r3.w, in)) ELSE r3
  IN Try(r2, r4, APIErrors, "InstallerError")

update_container(w, image, in) ==
  LET f == in.f
      r0 == Begin(w)
      new_image == IF image # "None" THEN image ELSE webui_image
      r1 == ImagesPull(r0, f, new_image)
      r2 == IF Ok(r1) THEN Then(r1, stop_container(r1.w, FALSE, in)) ELSE r1
      r3 == IF Ok(r2) THEN Then(r2, start_container(r2.w, 0, in)) ELSE r2
  IN Catch(r3, AnyException, "InstallerError")

UpdateVariants == {"clitests", "placeholder", "commands", "methods",
                   "container"}

update(v, w, image, in) ==
  CASE v = "clitests" -> update_clitests(w, image, in)
    [] v = "placeholder" -> update_placeholder(w, image, in)
    [] v = "commands" -> update_commands(w, image, in)
    [] v = "methods" -> update_methods(w, image, in)
    [] v = "container" -> update_container(w, image, in)

(***************************************************************************)
(* Actions.  last records the most recent call: the operation, the body    *)
(* that ran, its arguments, the failure injected, how it ended ("ok" or    *)
(* the exception that left it) and the mutating calls it made.             *)
(***************************************************************************)
NoArgs == [model |-> "None", port |-> 0, force |-> FALSE, image |-> "None"]
Args(m, p, fc, i) == [model |-> m, port |-> p, force |-> fc, image |-> i]
NoCheck == Checked("none", "-", <<>>)

Result(r) == IF r.exc = "none" THEN "ok" ELSE r.exc

(* what existed when the call began                                        *)
Pre(w) == [installed |-> w.config.exists /\ w.config.valid,
           container |-> w.container.exists, volume |-> w.volume,
           port |-> w.config.port]

Record(op, variant, args, in, r, status, chk) ==
  [op |-> op, variant |-> variant, args |-> args, fault |-> in.f.at,
   env |-> in.env, runtime |-> in.runtime, pre |-> Pre(World),
   result |-> Result(r), calls |-> r.calls, status |-> status,
   msg |-> chk.msg, checks |-> chk.checks, exit |-> -1]

SetWorld(w) ==
  /\ config' = w.config
  /\ container' = w.container
  /\ volume' = w.volume
  /\ configDir' = w.configDir
  /\ logsDir' = w.logsDir
  /\ launchScript' = w.launchScript
  /\ plist' = w.plist
  /\ agent' = w.agent

Done(op, variant, args, in, res) ==
  LET r == res
  IN /\ SetWorld(r.w)
     /\ last' = Record(op, variant, args, in, r, NotInstalledStatus, NoCheck)
     /\ UNCHANGED <<procs, dest, handlers>>

(* The hosts an operation is run on: the one that meets every requirement  *)
(* and one host per requirement that can fail.                             *)
RepEnvs == {GoodEnv,
            [GoodEnv EXCEPT !.system = "Linux"],
            [GoodEnv EXCEPT !.python_ok = FALSE],
            [GoodEnv EXCEPT !.ping = "DockerException"],
            [GoodEnv EXCEPT !.ollama = "ConnectionError"]}

(* One failure at a time: a failing call on a good host, or a host that    *)
(* fails a requirement, under either side of the requirement checks.       *)
Inputs(faults) ==
  {Inp(f, GoodEnv, "docker", "HEAD", "HEAD", "logging", TRUE) : f \in faults}
  \cup
  {Inp(NoFault, GoodEnv, "docker", "HEAD", "HEAD", gsv, lg) :
      gsv \in GsVariants, lg \in BOOLEAN}
  \cup
  {Inp(NoFault, env, "docker", v, v, "logging", TRUE) :
      env \in RepEnvs, v \in SysVariants}

(* The faults an operation can meet, one exception class per call where    *)
(* the operation treats all classes alike.                                 *)
FaultsAt(calls, excs) ==
  {f \in Faults : f.at \in calls /\ f.exc \in excs} \cup {NoFault}

InstallFaults ==
  FaultsAt({"status_get", "pull", "script_write", "config_open",
            "config_dump", "get", "stop", "remove", "run_create",
            "run_start"}, {"Exception"})
  \cup FaultsAt({"model_pull"}, AnyException)

UninstallFaults ==
  FaultsAt({"get", "stop", "remove", "rmtree", "vol_get", "vol_remove"},
           {"Exception"})

StatusFaults == FaultsAt({"status_get", "config_read"}, AnyException)

InstallArgs ==
  {Args(mp[1], mp[2], fc, i) : mp \in ModelPorts, fc \in BOOLEAN, i \in ImageArgs}

Install ==
  \E a \in InstallArgs, in \in Inputs(InstallFaults) :
    Done("install", "install", a, in,
         install(World, a.model, a.port, a.force, a.image, in))

Uninstall ==
  \E in \in Inputs(UninstallFaults) :
    Done("uninstall", "uninstall", NoArgs, in, uninstall(World, in))

GetStatus ==
  \E f \in StatusFaults, gsv \in GsVariants :
    LET in == Inp(f, GoodEnv, "docker", "HEAD", "HEAD", gsv, TRUE)
        g == get_status(World, f, gsv)
    IN /\ SetWorld(g.w)
       /\ last' = Record("get_status", gsv, NoArgs, in,
                         [w |-> g.w, exc |-> g.exc, calls |-> <<>>],
                         g.status, NoCheck)
       /\ UNCHANGED <<procs, dest, handlers>>

(***************************************************************************)
(* The lifecycle operations.  A call picks the body that the build holds   *)
(* (and, for the bodies that call stop, start or restart, the bodies of    *)
(* those), the side of get_status, and at most one failure.                *)
(***************************************************************************)
Build(f, gsv, sv, tv, rv) ==
  [Inp(f, GoodEnv, "docker", "HEAD", "HEAD", gsv, TRUE)
     EXCEPT !.sv = sv, !.tv = tv, !.rv = rv]

LifeInputs(faults) ==
  {Build(f, "placeholder", "head", "head", "clitests") : f \in faults}
  \cup {Build(NoFault, "logging", "head", "head", "clitests")}

StartFaults ==
  FaultsAt({"status_get", "config_read", "get", "start", "run_create",
            "run_start"}, AnyException)

StopFaults == FaultsAt({"get", "stop"}, AnyException)

RemoveFaults == FaultsAt({"get", "stop", "remove"}, {"Exception"})

RestartFaults == FaultsAt({"get", "restart"}, AnyException)

UpdateFaults ==
  FaultsAt({"status_get", "pull", "config_read", "config_open",
            "config_dump", "get", "stop", "remove", "restart", "start",
            "run_create", "run_start"}, {"APIError"})

Start ==
  \/ \E v \in StartVariants, in \in LifeInputs(StartFaults) :
       Done("start", v, NoArgs, in, start(v, World, in))
  \/ \E env \in RepEnvs, sys \in SysVariants :
       LET in == Inp(NoFault, env, "docker", sys, sys, "placeholder", TRUE)
       IN Done("start", "head", NoArgs, in, start_head(World, in))

StartContainer ==
  \/ \E in \in LifeInputs(StartFaults) :
       Done("start_container", "container", NoArgs, in,
            start_container(World, 0, in))
  \/ \E mp \in ModelPorts :
       LET in == Build(NoFault, "placeholder", "head", "head", "clitests")
       IN Done("start_container", "container", [NoArgs EXCEPT !.port = mp[2]],
               in, start_container(World, mp[2], in))

Stop ==
  \E v \in StopVariants, f \in StopFaults :
    LET in == Build(f, "placeholder", "head", "head", "clitests")
    IN Done("stop", v, NoArgs, in, stop(v, World, in))

StopContainer ==
  \E remove \in BOOLEAN, f \in RemoveFaults :
    LET in == Build(f, "placeholder", "head", "head", "clitests")
    IN Done("stop_container", "container", [NoArgs EXCEPT !.force = remove],
            in, stop_container(World, remove, in))

Restart ==
  \/ \E v \in RestartVariants \ {"head"}, f \in RestartFaults :
       LET in == Build(f, "placeholder", "head", "head", "clitests")
       IN Done("restart", v, NoArgs, in, restart(v, World, in))
  \/ \E sv \in StopVariants, tv \in StartVariants :
       LET in == Build(NoFault, "placeholder", sv, tv, "head")
       IN Done("restart", "head", NoArgs, in, restart_head(World, in))

Update ==
  \E v \in UpdateVariants, image \in ImageArgs,
     in \in LifeInputs(UpdateFaults)
            \cup {Build(NoFault, "placeholder", "head", "head", rv) :
                    rv \in {"head", "implrm"}} :
    Done("update", v, [NoArgs EXCEPT !.image = image], in,
         update(v, World, image, in))

(* install and uninstall as the lifecycle specification runs them: with no *)
(* failure, or failing where the config is left without its container.     *)
PlainFaults == FaultsAt({"run_create", "run_start", "config_dump"}, {"Exception"})

InstallPlain ==
  \E a \in InstallArgs, f \in PlainFaults :
    LET in == Inp(f, GoodEnv, "docker", "HEAD", "HEAD", "logging", TRUE)
    IN Done("install", "install", a, in,
            install(World, a.model, a.port, a.force, a.image, in))

UninstallPlain ==
  LET in == Inp(NoFault, GoodEnv, "docker", "HEAD", "HEAD", "logging", TRUE)
  IN Done("uninstall", "uninstall", NoArgs, in, uninstall(World, in))

(* _check_system_requirements on any host, as validate_system calls it     *)
CheckVariant(osv, engv) ==
  IF osv = "HEAD" THEN (IF engv = "HEAD" THEN "HEAD/HEAD" ELSE "HEAD/enhance")
  ELSE (IF engv = "HEAD" THEN "enhance/HEAD" ELSE "enhance/enhance")

CheckRequirements ==
  \E env \in Envs, runtime \in Runtimes, osv \in SysVariants,
     engv \in SysVariants :
    LET in == Inp(NoFault, env, runtime, osv, engv, "logging", TRUE)
        chk == _check_system_requirements(env, runtime, osv, engv)
    IN /\ last' = Record("check", CheckVariant(osv, engv), NoArgs, in,
                         Raise(Begin(World), chk.exc), NotInstalledStatus, chk)
       /\ UNCHANGED <<config, container, volume, configDir, logsDir,
                      launchScript, procs, plist, agent, dest, handlers>>

(* Paths and the handlers of the 'openwebui_installer' logger.  A path is   *)
(* the sequence of its components below the root.                          *)
DefaultHome == <<"Users", "a">>
Homes == {DefaultHome, <<"Users", "b">>, <<"Users", "a", "..", "a">>}

(* os.path.abspath of an absolute path: ".." drops the component before it *)
RECURSIVE NormPath(_)
NormPath(p) ==
  IF p = <<>> THEN <<>>
  ELSE LET init == NormPath(SubSeq(p, 1, Len(p) - 1))
           c == p[Len(p)]
       IN IF c = ".."
            THEN IF init = <<>> THEN <<>> ELSE SubSeq(init, 1, Len(init) - 1)
            ELSE Append(init, c)

(* line 86: config_dir = os.path.expanduser("~/.openwebui")                *)
ConfigDirOf(home) == home \o <<".openwebui">>
(* lines 91-93: log_file = config_dir/logs/openwebui_installer.log         *)
LogFileOf(config_dir) == config_dir \o <<"logs", "openwebui_installer.log">>
(* logging.FileHandler keeps os.path.abspath(filename) as baseFilename     *)
RotatingFileHandler(log_file) == NormPath(log_file)

(* lines 95-102: a handler is added unless one of logger.handlers has      *)
(* baseFilename == self.log_file                                           *)
AddHandler(hs, config_dir) ==
  LET log_file == LogFileOf(config_dir)
  IN IF \E i \in 1..Len(hs) : hs[i] = log_file
       THEN hs
       ELSE Append(hs, RotatingFileHandler(log_file))

(* The state after Installer() on a machine that never ran the installer:  *)
(* __init__ ends with _setup_logger, which creates config_dir/logs.  Proc  *)
(* p is an invocation of `install` in a process of its own; none has       *)
(* begun.                                                                  *)
NumProcs == 3
Procs == 1..NumProcs
IdleProc == [pc |-> "idle", exc |-> "none", calls |-> <<>>, handle |-> 0]

NoCall ==
  Record("init", "init", NoArgs, Inp(NoFault, GoodEnv, "docker", "HEAD", "HEAD",
                                     "logging", TRUE),
         Begin(NoConfig), NotInstalledStatus, NoCheck)

Init ==
  /\ config = NoConfig
  /\ container = NoContainer
  /\ volume = FALSE
  /\ configDir = TRUE
  /\ logsDir = TRUE
  /\ launchScript = FALSE
  /\ plist = FALSE
  /\ dest = "missing"
  /\ handlers = AddHandler(<<>>, ConfigDirOf(DefaultHome))
  /\ agent = FALSE
  /\ last = NoCall
  /\ procs = [p \in Procs |-> IdleProc]

Next == Install \/ Uninstall \/ GetStatus

Spec == Init /\ [][Next]_vars

NextLife ==
  \/ InstallPlain
  \/ UninstallPlain
  \/ Start
  \/ StartContainer
  \/ Stop
  \/ StopContainer
  \/ Restart
  \/ Update

SpecLife == Init /\ [][NextLife]_vars

NextReq == CheckRequirements

SpecReq == Init /\ [][NextReq]_vars

(***************************************************************************)
(* enable_autostart.  Two sides: extend-...-methods writes the descriptor  *)
(* whether or not the launch script exists, wraps a CalledProcessError of  *)
(* launchctl and returns the path; implement-macos-autostart insists on    *)
(* the launch script, lets launchctl's errors through and returns nothing. *)
(***************************************************************************)
PlistPathMethods == "~/Library/LaunchAgents/com.openwebui.autostart.plist"
PlistPathAutostart == "~/Library/LaunchAgents/com.openwebui.openwebui.plist"

(* with open(plist_path, "w") as f: f.write(...)                           *)
WritePlist(r, f) ==
  IF ~Ok(r) THEN r
  ELSE LET r1 == Log(r, Call("write_plist", "-", 0, "-"))
       IN IF f.at = "plist_write" THEN Raise(r1, f.exc)
          ELSE [r1 EXCEPT !.w.plist = TRUE]

(* subprocess.run(["launchctl", "load", "-w", plist_path], check=True)     *)
LaunchctlLoad(r, f) ==
  IF ~Ok(r) THEN r
  ELSE LET r1 == Log(r, Call("launchctl.load", "-", 0, "-"))
       IN IF f.at = "launchctl" THEN Raise(r1, f.exc)
          ELSE [r1 EXCEPT !.w.agent = TRUE]

OnlyOnMac(r, system) ==
  IF Ok(r) /\ system # "Darwin" THEN Raise(r, "InstallerError") ELSE r

Returning(r, value) ==
  [w |-> r.w, exc |-> r.exc, calls |-> r.calls,
   ret |-> IF Ok(r) THEN value ELSE "None"]

enable_autostart_methods(w, in) ==
  LET r1 == WritePlist(OnlyOnMac(Begin(w), in.env.system), in.f)
      r2 == Try(r1, LaunchctlLoad(r1, in.f), {"CalledProcessError"},
                "InstallerError")
  IN Returning(r2, PlistPathMethods)

enable_autostart_autostart(w, in) ==
  LET r1 == OnlyOnMac(Begin(w), in.env.system)
      r2 == IF Ok(r1) /\ ~r1.w.launchScript
              THEN Raise(r1, "InstallerError") ELSE r1
  IN Returning(LaunchctlLoad(WritePlist(r2, in.f), in.f), "None")

AutostartVariants == {"methods", "autostart"}

enable_autostart(v, w, in) ==
  CASE v = "methods" -> enable_autostart_methods(w, in)
    [] v = "autostart" -> enable_autostart_autostart(w, in)

AutostartFaults ==
  FaultsAt({"plist_write"}, {"Exception"})
  \cup FaultsAt({"launchctl"}, {"CalledProcessError"})

(* last.msg holds what the call returned                                   *)
EnableAutostart ==
  \E v \in AutostartVariants, system \in Systems, f \in AutostartFaults :
    LET in == Inp(f, [GoodEnv EXCEPT !.system = system], "docker", "HEAD",
                  "HEAD", "logging", TRUE)
        r == enable_autostart(v, World, in)
    IN /\ SetWorld(r.w)
       /\ last' = [Record("enable_autostart", v, NoArgs, in, r,
                          NotInstalledStatus, NoCheck) EXCEPT !.msg = r.ret]
       /\ UNCHANGED <<procs, dest, handlers>>

NextAuto == InstallPlain \/ UninstallPlain \/ EnableAutostart

SpecAuto == Init /\ [][NextAuto]_vars

(***************************************************************************)
(* Installer.logs: reads the container's log; three sides, of which one    *)
(* catches NotFound only.                                                  *)
(***************************************************************************)
ContainerLogs(r, f) ==
  IF Ok(r) /\ f.at = "logs" THEN Raise(r, f.exc) ELSE r

logs_commands(w, in) ==
  Catch(ContainerLogs(ContainersGet(Begin(w), in.f), in.f), APIErrors,
        "InstallerError")

logs_methods(w, in) ==
  Catch(ContainerLogs(ContainersGet(Begin(w), in.f), in.f), NotFoundOnly,
        "InstallerError")

logs_clitests(w, in) ==
  Catch(ContainerLogs(ContainersGet(Begin(w), in.f), in.f), APIErrors,
        "InstallerError")

LogsVariants == {"commands", "methods", "clitests"}

logs(v, w, in) ==
  CASE v = "commands" -> logs_commands(w, in)
    [] v = "methods" -> logs_methods(w, in)
    [] v = "clitests" -> logs_clitests(w, in)

(***************************************************************************)
(* The command line (cli.py).  Every subcommand builds an Installer and    *)
(* calls one operation inside `try: ... except Exception as e:` whose      *)
(* handler prints "Error: <e>" and calls sys.exit(1); install, and HEAD's  *)
(* start and restart, first call validate_system and exit with 1 when it   *)
(* returns False.  An exception that no handler catches ends the process   *)
(* with a traceback and exit status 1.  last.exit is the exit status,      *)
(* last.msg what was printed last, last.result how the operation ended.    *)
(***************************************************************************)
CliCaughtInstallerErrors == {"InstallerError", "SystemRequirementsError"}

CliCaught == AnyException

(* Installer(): docker.from_env(), then _setup_logger()                    *)
NewInstaller(w, f) ==
  IF f.at = "from_env" THEN Raise(Begin(w), f.exc)
  ELSE Begin(_setup_logger(w))

CliEnd(r, validated) ==
  IF ~validated THEN [code |-> 1, out |-> "System validation failed"]
  ELSE IF Ok(r) THEN [code |-> 0, out |-> "done"]
  ELSE IF r.exc \in CliCaught THEN [code |-> 1, out |-> "Error"]
  ELSE [code |-> 1, out |-> "Traceback"]

(* res: what the operation does in the world the new Installer sees        *)
Cli(op, v, args, in, validate, res) ==
  LET built == NewInstaller(World, in.f)
      chk == _check_system_requirements(in.env, in.runtime, in.osv, in.engv)
      validated == ~(Ok(built) /\ validate /\ chk.exc # "none")
      r == IF ~Ok(built) THEN built
           ELSE IF ~validated THEN Raise(built, chk.exc)
           ELSE res
      end == CliEnd(r, validated)
  IN /\ SetWorld(r.w)
     /\ last' = [Record(op, v, args, in, r, NotInstalledStatus, NoCheck)
                   EXCEPT !.exit = end.code, !.msg = end.out]
     /\ UNCHANGED <<procs, dest, handlers>>

(* a host that fails the system validation                                 *)
BadHost == [GoodEnv EXCEPT !.python_ok = FALSE]
BadHostInput ==
  [Build(NoFault, "placeholder", "head", "head", "clitests")
     EXCEPT !.env = BadHost]

CliInputs(calls) ==
  {Build(f, "placeholder", "head", "head", "clitests") :
     f \in FaultsAt(calls \cup {"from_env"}, {"APIError", "Exception",
                                               "CalledProcessError"})}

Fresh == _setup_logger(World)

CliInstall ==
  \E mp \in ModelPorts, force \in BOOLEAN,
     in \in CliInputs({"run_create"}) \cup {BadHostInput} :
    LET a == Args(mp[1], mp[2], force, "None")
    IN Cli("cli install", "install", a, in, TRUE,
           install(Fresh, a.model, a.port, a.force, a.image, in))

CliUninstall ==
  \/ \E in \in CliInputs({"vol_remove"}) :
       Cli("cli uninstall", "uninstall", NoArgs, in, FALSE,
           uninstall(Fresh, in))
  \/ /\ last' = [Record("cli uninstall", "declined", NoArgs,
                        Build(NoFault, "placeholder", "head", "head",
                              "clitests"),
                        Begin(World), NotInstalledStatus, NoCheck)
                   EXCEPT !.exit = 0, !.msg = "aborted"]
     /\ UNCHANGED <<config, container, volume, configDir, logsDir,
                    launchScript, procs, plist, agent, dest, handlers>>

CliStatus ==
  \E gsv \in GsVariants, in \in CliInputs({"status_get"}) :
    LET g == get_status(Fresh, in.f, gsv)
    IN Cli("cli status", gsv, NoArgs, in, FALSE,
           [w |-> g.w, exc |-> g.exc, calls |-> <<>>])

CliStart ==
  \/ \E v \in StartVariants :
       \E in \in CliInputs({"start"})
                 \cup (IF v = "head" THEN {BadHostInput} ELSE {}) :
       Cli("cli start", v, NoArgs, in, v = "head", start(v, Fresh, in))
  \/ \E in \in CliInputs({"start"}) :
       Cli("cli start", "container", NoArgs, in, FALSE,
           start_container(Fresh, 0, in))

CliStop ==
  \/ \E v \in StopVariants, in \in CliInputs({"stop"}) :
       Cli("cli stop", v, NoArgs, in, FALSE, stop(v, Fresh, in))
  \/ \E remove \in BOOLEAN, in \in CliInputs({"stop"}) :
       Cli("cli stop", "container", [NoArgs EXCEPT !.force = remove], in,
           FALSE, stop_container(Fresh, remove, in))

CliRestart ==
  \E v \in RestartVariants :
    \E in \in CliInputs({"restart"})
              \cup (IF v = "head" THEN {BadHostInput} ELSE {}) :
    Cli("cli restart", v, NoArgs, in, v = "head", restart(v, Fresh, in))

CliUpdate ==
  \E v \in UpdateVariants, image \in ImageArgs, in \in CliInputs({"pull"}) :
    Cli("cli update", v, [NoArgs EXCEPT !.image = image], in, FALSE,
        update(v, Fresh, image, in))

CliLogs ==
  \E v \in LogsVariants, in \in CliInputs({"logs"}) :
    Cli("cli logs", v, NoArgs, in, FALSE, logs(v, Fresh, in))

CliEnableAutostart ==
  \E v \in AutostartVariants, in \in CliInputs({"launchctl"}) :
    Cli("cli enable-autostart", v, NoArgs, in, FALSE,
        enable_autostart(v, Fresh, in))

NextCli ==
  \/ CliInstall
  \/ CliUninstall
  \/ CliStatus
  \/ CliStart
  \/ CliStop
  \/ CliRestart
  \/ CliUpdate
  \/ CliLogs
  \/ CliEnableAutostart

SpecCli == Init /\ [][NextCli]_vars

(***************************************************************************)
(* Invocations of install(force = False) at once, each an OS process      *)
(* with its own Installer.  Nothing in install takes a lock, so each call  *)
(* on the engine or the disk is a step of its own and the steps of the two *)
(* processes interleave freely.  Process p installs the p-th model on the  *)
(* p-th port, on a host that meets the requirements; each process runs     *)
(* install once.  handle is the port of the container that containers.get  *)
(* returned (the processes publish different ports, so it tells their      *)
(* containers apart).                                                      *)
(***************************************************************************)
ProcModel(p) == ModelNames[p]
ProcPort(p) == FirstPort + p - 1

Running(p) == [w |-> World, exc |-> "none", calls |-> procs[p].calls]

(* the step leaves the world r.w; an exception ends the invocation, raised *)
(* as InstallerError by the handler around the body of install             *)
Step(p, r, next, handle) ==
  /\ SetWorld(r.w)
  /\ procs' = [procs EXCEPT ![p] =
                 [pc |-> IF Ok(r) THEN next ELSE "done",
                  exc |-> Catch(r, AnyException, "InstallerError").exc,
                  calls |-> r.calls, handle |-> handle]]
  /\ UNCHANGED <<last, dest, handlers>>

ProcBegin(p) ==
  /\ procs[p].pc = "idle"
  /\ Step(p, Begin(_setup_logger(World)), "check", 0)

ProcCheckResultLocked(p) ==
  IF \E q \in Procs \ {p} : procs[q].pc \notin {"idle", "check", "done"}
    THEN Raise(Running(p), "InstallerError")
    ELSE CheckNotInstalled(Running(p), NoFault, "logging", FALSE)

ProcCheckResult(p) ==
  CheckNotInstalled(Running(p), NoFault, "logging", FALSE)

ProcCheck(p) ==
  /\ procs[p].pc = "check"
  /\ Step(p, ProcCheckResult(p), "requirements", 0)

ProcRequirements(p) ==
  /\ procs[p].pc = "requirements"
  /\ Step(p, _ensure_config_dir(
                CallCheckRequirements(Running(p), GoodEnv, "docker", "HEAD",
                                      "HEAD")),
          "pull_image", 0)

ProcPullImage(p) ==
  /\ procs[p].pc = "pull_image"
  /\ Step(p, _pull_webui_image(Running(p), NoFault, webui_image),
          "pull_model", 0)

ProcPullModel(p) ==
  /\ procs[p].pc = "pull_model"
  /\ Step(p, _pull_ollama_model(Running(p), NoFault, ProcModel(p)),
          "launch_script", 0)

ProcLaunchScript(p) ==
  /\ procs[p].pc = "launch_script"
  /\ Step(p, _create_launch_script(Running(p), NoFault, ProcPort(p),
                                   webui_image),
          "config_open", 0)

(* open(config_file, "w") truncates the file ...                           *)
ProcConfigOpen(p) ==
  /\ procs[p].pc = "config_open"
  /\ Step(p, [Log(Running(p), Call("write_config", webui_image, ProcPort(p),
                                   ProcModel(p)))
                EXCEPT !.w.config = CorruptConfig],
          "config_dump", 0)

(* ... and json.dump writes it                                             *)
ProcConfigDump(p) ==
  /\ procs[p].pc = "config_dump"
  /\ Step(p, [Running(p) EXCEPT
                !.w.config = NewConfig(ProcModel(p), ProcPort(p), webui_image)],
          "get", 0)

(* _stop_existing_container, call by call; NotFound at any of them is      *)
(* passed over                                                             *)
ProcGet(p) ==
  /\ procs[p].pc = "get"
  /\ LET r == ContainersGet(Running(p), NoFault)
     IN Step(p, Catch(r, NotFoundOnly, "none"),
             IF Ok(r) THEN "stop" ELSE "run",
             IF Ok(r) THEN container.port ELSE 0)

Held(p) == container.exists /\ container.port = procs[p].handle

ProcStop(p) ==
  /\ procs[p].pc = "stop"
  /\ IF Held(p)
       THEN Step(p, ContainerStop(Running(p), NoFault), "remove",
                 procs[p].handle)
       ELSE Step(p, Log(Running(p), Call("container.stop", "-", 0, "-")),
                 "run", 0)

ProcRemove(p) ==
  /\ procs[p].pc = "remove"
  /\ IF Held(p)
       THEN Step(p, ContainerRemove(Running(p), NoFault), "run", 0)
       ELSE Step(p, Log(Running(p), Call("container.remove", "-", 0, "-")),
                 "run", 0)

ProcRun(p) ==
  /\ procs[p].pc = "run"
  /\ Step(p, _start_container(Running(p), NoFault, ProcPort(p), webui_image),
          "done", 0)

NextConc ==
  \E p \in Procs :
    \/ ProcBegin(p)
    \/ ProcCheck(p)
    \/ ProcRequirements(p)
    \/ ProcPullImage(p)
    \/ ProcPullModel(p)
    \/ ProcLaunchScript(p)
    \/ ProcConfigOpen(p)
    \/ ProcConfigDump(p)
    \/ ProcGet(p)
    \/ ProcStop(p)
    \/ ProcRemove(p)
    \/ ProcRun(p)

SpecConc == Init /\ [][NextConc]_vars

(***************************************************************************)
(* downloader.py: Downloader.download_if_needed(url, dest, checksum).      *)
(* dest is the file at the destination path: "missing", or its content.    *)
(* The server answers the request with one of RemoteContents; a transfer   *)
(* cut short leaves the bytes written so far, Truncated(c).                *)
(***************************************************************************)
RemoteContents == {"v1", "v2"}
Truncated(c) == "part of " \o c
FileContents == RemoteContents \cup {Truncated(c) : c \in RemoteContents}
DestFiles == {"missing"} \cup FileContents

(* hashlib.sha256 of a file's content, as a hex digest; the contents of    *)
(* the model have pairwise different digests                                *)
_sha256(c) == "sha256(" \o c \o ")"
(* the checksum argument: None, the digest of some content, or a string    *)
(* that is the digest of nothing                                           *)
Checksums == {"None", "invalidchecksum"} \cup {_sha256(c) : c \in FileContents}

(* where a transfer fails: session.get / raise_for_status, os.makedirs,    *)
(* open(dest, "wb"), or f.write after some chunks                          *)
DownloadFaults == {"none", "request", "makedirs", "open", "write"}

(* a download in progress: file is dest so far, requests counts            *)
(* session.get calls, exc is the exception in flight, ret the value        *)
(* returned                                                                *)
DlBegin(file) == [file |-> file, requests |-> 0, exc |-> "none", ret |-> "None"]

(* lines 45-50: an existing file is accepted when no checksum is given or  *)
(* its digest equals the checksum                                          *)
Acceptable(file, checksum) ==
  /\ file # "missing"
  /\ IF checksum # "None" THEN _sha256(file) = checksum ELSE TRUE

(* lines 52-59: the try block.  open(dest, "wb") truncates dest before the *)
(* first chunk is written; no statement of the handler removes dest.       *)
Transfer(d, remote, fault) ==
  LET got == [d EXCEPT !.requests = @ + 1]
  IN IF fault \in {"request", "makedirs", "open"}
       THEN [got EXCEPT !.exc = "Exception"]
     ELSE IF fault = "write"
       THEN [got EXCEPT !.file = Truncated(remote), !.exc = "Exception"]
     ELSE [got EXCEPT !.file = remote]

(* lines 60-61: except Exception as exc: raise DownloadError(...)          *)
TransferHandled(d) ==
  IF d.exc # "none" THEN [d EXCEPT !.exc = "DownloadError"] ELSE d

VerifyDownloadKeepingFile(d, checksum) ==
  IF d.exc # "none" THEN d
  ELSE IF checksum # "None" /\ _sha256(d.file) # checksum
    THEN [d EXCEPT !.exc = "DownloadError"]
  ELSE [d EXCEPT !.ret = "dest"]

(* lines 63-66: the digest of the downloaded file is checked; on mismatch  *)
(* dest is removed and DownloadError raised                                *)
VerifyDownload(d, checksum) ==
  IF d.exc # "none" THEN d
  ELSE IF checksum # "None" /\ _sha256(d.file) # checksum
    THEN [d EXCEPT !.file = "missing", !.exc = "DownloadError"]
  ELSE [d EXCEPT !.ret = "dest"]

download_always(file, checksum, remote, fault) ==
  VerifyDownload(TransferHandled(Transfer(DlBegin(file), remote, fault)),
                 checksum)

download_if_needed(file, checksum, remote, fault) ==
  IF Acceptable(file, checksum)
    THEN [DlBegin(file) EXCEPT !.ret = "dest"]
  ELSE VerifyDownload(TransferHandled(Transfer(DlBegin(file), remote, fault)),
                      checksum)

(* one call of download_if_needed on the file at dest                      *)
Download ==
  \E checksum \in Checksums, remote \in RemoteContents,
     fault \in DownloadFaults :
    LET d == download_if_needed(dest, checksum, remote, fault)
    IN /\ dest' = d.file
       /\ last' = [op |-> "download_if_needed", before |-> dest,
                   checksum |-> checksum, remote |-> remote, fault |-> fault,
                   requests |-> d.requests, result |-> d.exc, ret |-> d.ret]
       /\ UNCHANGED <<config, container, volume, configDir, logsDir,
                      launchScript, procs, plist, agent, handlers>>

NextDownload == Download

SpecDownload == Init /\ [][NextDownload]_vars

(***************************************************************************)
(* Installer.__init__ and _setup_logger.  handlers is logger.handlers of   *)
(* the process-wide 'openwebui_installer' logger: the baseFilename of each *)
(* RotatingFileHandler, in the order they were added.                      *)
(***************************************************************************)
(* the environment of a construction: whether docker.from_env() succeeds,  *)
(* whether podman is on the PATH, whether DockerClient(base_url=...) can   *)
(* be created, DOCKER_HOST, and HOME                                       *)
DockerHosts == {"None", "tcp://engine:2375"}
InitEnvs ==
  [from_env : BOOLEAN, podman : BOOLEAN, podman_client : BOOLEAN,
   docker_host : DockerHosts, home : Homes]

(* docker.from_env(): the client of DOCKER_HOST, or of the Docker socket   *)
FromEnvClient(e) ==
  IF e.docker_host # "None" THEN e.docker_host
  ELSE "unix:///var/run/docker.sock"

(* lines 109-115: DOCKER_HOST, or the Podman socket of the user            *)
_get_podman_client(e) ==
  IF e.docker_host # "None" THEN e.docker_host
  ELSE "unix:///run/user/<uid>/podman/podman.sock"

(* lines 105-107 *)
_podman_available(e) == e.podman

NoInstaller == [exc |-> "none", runtime |-> "None", client |-> "None"]

(* lines 53-77.  runtime "default" is Installer() with no argument.        *)
init_head(runtime_arg, e) ==
  LET runtime == IF runtime_arg = "default" THEN "docker" ELSE runtime_arg
      s0 == [NoInstaller EXCEPT !.runtime = runtime]
      s1 == IF e.from_env THEN [s0 EXCEPT !.client = FromEnvClient(e)]
            ELSE IF runtime = "docker" /\ _podman_available(e)
              THEN IF e.podman_client
                     THEN [s0 EXCEPT !.runtime = "podman",
                                     !.client = _get_podman_client(e)]
                     ELSE [s0 EXCEPT !.runtime = "podman",
                                     !.exc = "DockerException"]
            ELSE [s0 EXCEPT !.exc = "DockerException"]
  IN IF s1.exc = "none" /\ runtime = "podman" /\ s1.runtime # "podman"
       THEN IF e.podman_client
              THEN [s1 EXCEPT !.runtime = "podman",
                              !.client = _get_podman_client(e)]
              ELSE [s1 EXCEPT !.runtime = "podman", !.exc = "DockerException"]
       ELSE s1

(* lines 79-83: __init__(self, verbose) has no runtime parameter           *)
init_enhance(runtime_arg, e) ==
  IF runtime_arg # "default" THEN [NoInstaller EXCEPT !.exc = "TypeError"]
  ELSE IF e.from_env THEN [NoInstaller EXCEPT !.client = FromEnvClient(e)]
  ELSE [NoInstaller EXCEPT !.exc = "DockerException"]

InitVariants == {"head", "enhance"}

__init__(v, runtime_arg, e) ==
  IF v = "head" THEN init_head(runtime_arg, e) ELSE init_enhance(runtime_arg, e)

MaxHandlers == 3

(* Installer(...) or Installer(runtime=...): lines 53-87; _setup_logger is *)
(* reached only when the client was created                                *)
Construct ==
  \E v \in InitVariants, runtime_arg \in {"default", "docker", "podman"},
     e \in InitEnvs :
    LET s == __init__(v, runtime_arg, e)
        hs == IF s.exc = "none" THEN AddHandler(handlers, ConfigDirOf(e.home))
              ELSE handlers
    IN /\ Len(hs) <= MaxHandlers
       /\ handlers' = hs
       /\ last' = [op |-> "Installer", variant |-> v, arg |-> runtime_arg,
                   env |-> e, result |-> s.exc, runtime |-> s.runtime,
                   client |-> s.client,
                   log_file |-> LogFileOf(ConfigDirOf(e.home))]
       /\ UNCHANGED <<config, container, volume, configDir, logsDir,
                      launchScript, procs, plist, agent, dest>>

(* _setup_logger() of an installer built under HOME = home, as get_status, *)
(* install and uninstall call it                                           *)
SetupLogger ==
  \E home \in Homes :
    LET hs == AddHandler(handlers, ConfigDirOf(home))
    IN /\ Len(hs) <= MaxHandlers
       /\ handlers' = hs
       /\ last' = [op |-> "_setup_logger", home |-> home,
                   log_file |-> LogFileOf(ConfigDirOf(home))]
       /\ UNCHANGED <<config, container, volume, configDir, logsDir,
                      launchScript, procs, plist, agent, dest>>

NextInit == Construct \/ SetupLogger

SpecInit == Init /\ [][NextInit]_vars

(***************************************************************************)
(* Properties.                                                             *)
(***************************************************************************)
Called(c) == \E i \in 1..Len(last.calls) : last.calls[i].call = c
PlainInput == Inp(NoFault, GoodEnv, "docker", "HEAD", "HEAD", "logging", TRUE)
CleanWorld == [config |-> NoConfig, container |-> NoContainer,
               volume |-> FALSE, configDir |-> FALSE, logsDir |-> FALSE,
               launchScript |-> FALSE, plist |-> FALSE, agent |-> FALSE]
ResolvedImage(image) == IF image # "None" THEN image ELSE webui_image

(* C1: install with force = false on an installed system raises            *)
(* InstallerError before any mutating call: it pulls nothing, writes       *)
(* neither the launch script nor the config and leaves the container and   *)
(* the volume alone.                                                       *)
C1_InstalledInstallHasNoEffect ==
  [][(last'.op = "install" /\ ~last'.args.force /\ last'.pre.installed)
       => /\ last'.result = "InstallerError"
          /\ last'.calls = <<>>
          /\ UNCHANGED <<config, container, volume, launchScript>>]_vars

C1_Witness ==
  /\ last.op = "install" /\ ~last.args.force /\ last.pre.installed
  /\ last.fault = "none" /\ last.env = GoodEnv
  /\ last.result = "InstallerError"
  /\ container.exists

(* C2: after install(model = m, port = p) returned, with or without force, *)
(* get_status (the engine and the disk answering) does not raise and       *)
(* reports installed = true, port = p and model = m, on either side of     *)
(* get_status.                                                             *)
C2_StatusAfterInstall ==
  (last.op = "install" /\ last.result = "ok")
    => \A gsv \in GsVariants :
         LET g == get_status(World, NoFault, gsv)
         IN /\ g.exc = "none"
            /\ g.status.installed
            /\ g.status.port = last.args.port
            /\ g.status.model = last.args.model

C2_Witness ==
  /\ last.op = "install" /\ last.result = "ok"
  /\ last.args.force /\ last.pre.installed
  /\ last.args.port # last.pre.port

(* C3: while config.json does not exist, get_status returns installed =    *)
(* false and running = false with version, port and model unset, whatever  *)
(* else exists and whether or not the engine answers.                      *)
C3_NoConfigNotInstalled ==
  ~config.exists
    => /\ \A f \in StatusFaults, gsv \in GsVariants :
            LET g == get_status(World, f, gsv)
            IN /\ g.exc = "none"
               /\ ~g.status.installed /\ ~g.status.running
               /\ g.status.version = "None" /\ g.status.port = 0
               /\ g.status.model = "None"
       /\ last.op = "get_status"
            => /\ last.result = "ok"
               /\ ~last.status.installed /\ ~last.status.running

C3_Witness ==
  /\ last.op = "get_status" /\ last.fault = "status_get"
  /\ ~config.exists /\ volume
  /\ last.result = "ok" /\ ~last.status.installed

(* C4: after uninstall returned, config.json is gone and get_status        *)
(* reports installed = false.                                              *)
C4_UninstallRemovesConfig ==
  (last.op = "uninstall" /\ last.result = "ok")
    => /\ ~config.exists
       /\ \A f \in StatusFaults, gsv \in GsVariants :
            LET g == get_status(World, f, gsv)
            IN g.exc = "none" /\ ~g.status.installed

C4_Witness ==
  /\ last.op = "uninstall" /\ last.result = "ok"
  /\ last.pre.installed /\ last.pre.container /\ last.pre.volume
  /\ ~config.exists

(* C5: uninstall with no container, no volume and no config (as after an   *)
(* uninstall that returned) does not raise, and leaves what one uninstall  *)
(* leaves: no container, no volume, no config directory.                   *)
C5_UninstallIdempotent ==
  /\ (last.op = "uninstall" /\ last.result = "ok")
       => /\ World = CleanWorld
          /\ \A lg \in BOOLEAN :
               LET r == uninstall(World, [PlainInput EXCEPT !.lg = lg])
               IN r.exc = "none" /\ r.w = CleanWorld
  /\ (last.op = "uninstall" /\ last.fault = "none"
      /\ ~last.pre.installed /\ ~last.pre.container /\ ~last.pre.volume)
       => last.result = "ok"

C5_Witness ==
  /\ last.op = "uninstall" /\ last.fault = "none" /\ last.result = "ok"
  /\ ~last.pre.installed /\ ~last.pre.container /\ ~last.pre.volume
  /\ last.calls = <<>>

(* C6: an install that returned made these calls in this order: pull of    *)
(* the resolved image, pull of the model, write of the launch script,      *)
(* write of the config (model, port, resolved image), stop and remove of   *)
(* the container that was there, run of the resolved image on port p; and  *)
(* the container then runs that image on that port.                        *)
C6_InstallOrder ==
  (last.op = "install" /\ last.result = "ok")
    => LET i == ResolvedImage(last.args.image)
           p == last.args.port
           m == last.args.model
       IN /\ last.calls =
               <<Call("images.pull", i, 0, "-"),
                 Call("ollama.pull", "-", 0, m),
                 Call("write_launch_script", i, p, "-"),
                 Call("write_config", i, p, m)>>
               \o (IF last.pre.container
                     THEN <<Call("container.stop", "-", 0, "-"),
                            Call("container.remove", "-", 0, "-")>>
                     ELSE <<>>)
               \o <<Call("containers.run", i, p, "-")>>
          /\ container = [exists |-> TRUE, status |-> "running",
                          image |-> i, port |-> p]
          /\ config = [exists |-> TRUE, valid |-> TRUE,
                       version |-> ConfigVersion, model |-> m, port |-> p,
                       image |-> i]

C6_Witness ==
  /\ last.op = "install" /\ last.result = "ok"
  /\ ~last.pre.installed /\ ~last.pre.container /\ ~last.args.force
  /\ last.args.image = CustomImage
  /\ container.image = CustomImage

(* C7: after update(image = i) returned on an installed system, i was      *)
(* pulled, the config holds image i, the old container was stopped and     *)
(* removed, and a new container runs image i on the port the config held.  *)
C7_UpdateRecreatesContainer ==
  (last.op = "update" /\ last.result = "ok" /\ last.fault = "none"
   /\ last.pre.installed /\ last.args.image # "None")
    => /\ \E k \in 1..Len(last.calls) :
            last.calls[k] = Call("images.pull", last.args.image, 0, "-")
       /\ config.image = last.args.image
       /\ last.pre.container
            => Called("container.stop") /\ Called("container.remove")
       /\ Called("containers.run")
       /\ container = [exists |-> TRUE, status |-> "running",
                       image |-> last.args.image, port |-> last.pre.port]

(* C8: when the OS and Python checks pass and the engine ping fails,       *)
(* _check_system_requirements raises SystemRequirementsError with a        *)
(* message naming the engine (Podman when that runtime is selected,        *)
(* Docker otherwise), and Ollama is not contacted.                         *)
EngineMessages(runtime) ==
  IF runtime = "podman" THEN {MsgPodman}
  ELSE {MsgDocker, MsgDockerPodmanHint, MsgDockerService}

C8_PingFailureNamesEngine ==
  (last.op = "check" /\ last.env.ping # "ok" /\ last.checks # <<>>
   /\ last.checks[Len(last.checks)] = "ping")
    => /\ last.result = "SystemRequirementsError"
       /\ last.msg \in EngineMessages(last.runtime)

(* C9: with the config present, start() on a missing container does not    *)
(* raise and creates the container from the image and port of the config;  *)
(* on an existing container it starts that one and creates none.           *)
C9_StartRecreatesOrStarts ==
  (last.op = "start" /\ last.fault = "none" /\ last.env = GoodEnv
   /\ last.pre.installed)
    => /\ last.result = "ok"
       /\ IF last.pre.container
            THEN ~Called("containers.run") /\ container.status = "running"
            ELSE /\ Called("containers.run")
                 /\ container = [exists |-> TRUE, status |-> "running",
                                 image |-> config.image, port |-> config.port]

(* C10: stop() and restart() raise InstallerError when the engine finds no *)
(* container, and change nothing.                                          *)
C10_StopRestartNeedContainer ==
  (last.op \in {"stop", "restart"} /\ last.fault = "none"
   /\ ~last.pre.container)
    => /\ last.result = "InstallerError"
       /\ last.calls = <<>>
       /\ ~container.exists

(* C11: with a readable config, get_status does not raise whatever the     *)
(* lookup of the container does; it reports installed = true, and running  *)
(* = true only when the lookup succeeded and the container is running.     *)
C11_LookupFailureMeansNotRunning ==
  (last.op = "get_status" /\ last.pre.installed /\ last.fault # "config_read")
    => /\ last.result = "ok"
       /\ last.status.installed
       /\ last.status.running
            = (last.fault = "none" /\ container.status = "running")

(* C12: get_status reports installed = true exactly when config.json       *)
(* exists, whatever the file holds and whether or not it can be read.      *)
C12_InstalledIffConfigExists ==
  \A f \in StatusFaults, gsv \in GsVariants :
    LET g == get_status(World, f, gsv)
    IN g.exc = "none" => (g.status.installed <=> config.exists)

(* C13: a call of get_status leaves the config directory and its files,    *)
(* the container and the volume as they were.                              *)
C13_GetStatusPureRead ==
  [][last'.op = "get_status"
       => UNCHANGED <<config, container, volume, configDir, logsDir,
                      launchScript>>]_vars

(* C14: the installer never asks the engine to create the container while  *)
(* a container named "open-webui" exists: every containers.run of an       *)
(* operation, returning or failing, is made when the lookup found none or  *)
(* the existing one was removed.  (The engine keeps names unique, so at     *)
(* most one such container exists.)                                        *)
C14_RunOnlyWhenNameFree ==
  \A k \in 1..Len(last.calls) :
    last.calls[k].call = "containers.run" => last.calls[k].free

C14_Witness ==
  /\ last.op = "install" /\ last.args.force /\ last.pre.container
  /\ Called("container.remove") /\ Called("containers.run")
  /\ last.result = "ok" /\ container.exists

(* C15: only uninstall removes the volume "open-webui": a call of install  *)
(* (with or without force), start, stop, restart or update, returning or   *)
(* failing, asks for no volume removal and leaves an existing volume in    *)
(* place, also when it removes and recreates the container.                *)
C15_VolumeSurvives ==
  [][last'.op # "uninstall"
       => /\ volume => volume'
          /\ \A k \in 1..Len(last'.calls) :
               last'.calls[k].call # "volume.remove"]_vars

C15_Witness ==
  /\ last.op = "update" /\ last.result = "ok"
  /\ last.pre.volume /\ last.pre.container
  /\ Called("container.remove") /\ Called("containers.run")
  /\ volume

(* C16: install does not roll back.  When it fails, it raises              *)
(* InstallerError and what the completed steps did persists: the launch    *)
(* script and the config written stay, a removed container stays removed.  *)
(* When containers.run fails after the config was written, config.json     *)
(* remains and get_status reports installed = true with no container       *)
(* running.                                                                *)
C16_InstallNoRollback ==
  (last.op = "install" /\ last.result # "ok")
    => LET written == Called("write_config")
                        /\ last.fault \notin {"config_open", "config_dump"}
       IN /\ last.result = "InstallerError"
          /\ (Called("write_launch_script") /\ last.fault # "script_write")
               => launchScript
          /\ written
               => /\ config = NewConfig(last.args.model, last.args.port,
                                        ResolvedImage(last.args.image))
                  /\ \A gsv \in GsVariants :
                       LET g == get_status(World, NoFault, gsv)
                       IN g.exc = "none" /\ g.status.installed
                            /\ g.status.port = last.args.port
          /\ (Called("container.remove") /\ last.fault = "run_create")
               => ~container.exists
          /\ Called("containers.run")
               => written /\ container.status # "running"

C16_Witness ==
  /\ last.op = "install" /\ last.fault = "run_create"
  /\ ~last.pre.installed /\ ~last.pre.container
  /\ Called("containers.run")
  /\ last.result = "InstallerError"
  /\ config.exists /\ ~container.exists

(* C17: install, uninstall, start, stop, restart and update either return  *)
(* or raise InstallerError (or its subclass SystemRequirementsError): no   *)
(* engine error, subprocess error or file error leaves them unwrapped.     *)
C17_FailuresAreInstallerErrors ==
  last.op \in {"install", "uninstall", "start", "stop", "restart", "update"}
    => last.result \in {"ok", "InstallerError", "SystemRequirementsError"}

(* C18: uninstall stops and removes the container, then removes the        *)
(* volume, then deletes the config directory: when rmtree is called the    *)
(* volume step is over (the volume was looked up and, if there, removed).  *)
C18_UninstallOrder ==
  (last.op = "uninstall" /\ Called("rmtree"))
    => /\ last.fault \notin {"vol_get", "vol_remove"}
       /\ last.pre.volume => Called("volume.remove")
       /\ \A i, j \in 1..Len(last.calls) :
            /\ (last.calls[i].call = "container.remove"
                /\ last.calls[j].call \in {"volume.remove", "rmtree"}) => i < j
            /\ (last.calls[i].call = "volume.remove"
                /\ last.calls[j].call = "rmtree") => i < j

(* C19: _check_system_requirements makes one pass over the checks in the   *)
(* order OS, Python, engine, Ollama, each at most once; it raises          *)
(* SystemRequirementsError at the first check that fails, having made no   *)
(* later check, and returns only when all four passed.  (The lookup of the *)
(* docker executable belongs to the engine check.)                         *)
CheckRank(c) ==
  CASE c = "os" -> 1 [] c = "python" -> 2 [] c = "docker_cli" -> 3
    [] c = "ping" -> 3 [] c = "ollama" -> 4

C19_FailFastSinglePass ==
  last.op = "check"
    => LET cs == last.checks
           n == CheckRank(cs[Len(cs)])
           e == last.env
       IN /\ cs # <<>> /\ CheckRank(cs[1]) = 1
          /\ \A i, j \in 1..Len(cs) : i < j => cs[i] # cs[j]
          /\ \A i \in 1..(Len(cs) - 1) :
               CheckRank(cs[i + 1]) - CheckRank(cs[i]) \in {0, 1}
          /\ last.result \in {"ok", "SystemRequirementsError"}
          /\ n > 1 => e.system \in {"Darwin", "Linux"}
          /\ n > 2 => e.python_ok
          /\ n > 3 => e.ping = "ok"
          /\ last.result = "ok" => n = 4 /\ e.ollama = "200"
          /\ last.result # "ok"
               => CASE n = 1 -> e.system # "Darwin"
                    [] n = 2 -> ~e.python_ok
                    [] n = 3 -> e.ping # "ok" \/ ~e.docker_cli
                    [] n = 4 -> e.ollama # "200"

(* C20: the already-installed check of install(force = False) gives no     *)
(* mutual exclusion: whether an invocation passes it depends only on what  *)
(* config.json holds at that moment, not on what another invocation is     *)
(* doing; an invocation that finds no readable config goes on to the       *)
(* mutating steps even while another one is in the middle of them.         *)
C20_CheckGivesNoExclusion ==
  [][\A p \in Procs :
       (procs[p].pc = "check" /\ procs'[p].pc # "check")
         => procs'[p].pc = IF config.exists /\ config.valid
                             THEN "done" ELSE "requirements"]_vars

ProcCalled(p, c) ==
  \E i \in 1..Len(procs[p].calls) : procs[p].calls[i].call = c

(* two invocations, and no other, ran: both passed the check and both      *)
(* pulled, wrote the config and asked the engine for the container; one of *)
(* them removed the other's container                                      *)
C20_Witness ==
  /\ \A p \in {1, 2} :
       /\ procs[p].pc = "done"
       /\ ProcCalled(p, "images.pull") /\ ProcCalled(p, "write_config")
       /\ ProcCalled(p, "containers.run")
  /\ \A p \in Procs \ {1, 2} : procs[p].pc = "idle"
  /\ \E p \in {1, 2} : ProcCalled(p, "container.remove")

(* C22: on a host whose platform.system() is not "Darwin",                 *)
(* _check_system_requirements raises SystemRequirementsError with the      *)
(* message "This installer only supports macOS", having made no other      *)
(* check.                                                                  *)
C22_NonMacRejected ==
  (last.op = "check" /\ last.env.system # "Darwin")
    => /\ last.result = "SystemRequirementsError"
       /\ last.msg = MsgOsMac
       /\ last.checks = <<"os">>

(* C23: enable_autostart raises InstallerError on a host that is not macOS *)
(* and then neither writes the descriptor nor runs launchctl; it raises    *)
(* InstallerError when the launchctl subprocess fails; and it returns a    *)
(* path only when launchctl loaded the descriptor.                         *)
C23_AutostartFailsAsInstallerError ==
  last.op = "enable_autostart"
    => /\ last.env.system # "Darwin"
            => /\ last.result = "InstallerError"
               /\ ~Called("write_plist") /\ ~Called("launchctl.load")
       /\ (last.fault = "launchctl" /\ Called("launchctl.load"))
            => last.result = "InstallerError"
       /\ last.msg # "None"
            => last.result = "ok" /\ Called("launchctl.load") /\ agent

C24_MismatchRemovesDest ==
  (/\ last.op = "download_if_needed"
   /\ last.requests > 0 /\ last.fault = "none"
   /\ last.checksum # "None" /\ _sha256(last.remote) # last.checksum)
    => last.result = "DownloadError" /\ last.ret = "None" /\ dest = "missing"

C24_Witness ==
  /\ last.op = "download_if_needed"
  /\ last.before = "v1" /\ last.remote = "v2"
  /\ last.checksum = "invalidchecksum" /\ last.fault = "none"
  /\ last.requests = 1
  /\ last.result = "DownloadError" /\ dest = "missing"

(* C25: a file at dest that needs no checking (no checksum given) or whose *)
(* SHA-256 equals the checksum is returned as it is, with no request made  *)
(* and the file untouched; a request is made only when dest is missing or  *)
(* its digest differs from the checksum.                                   *)
C25_ExistingFileSkipsDownload ==
  last.op = "download_if_needed"
    => /\ (/\ last.before # "missing"
           /\ \/ last.checksum = "None"
              \/ _sha256(last.before) = last.checksum)
            => /\ last.requests = 0 /\ last.result = "none"
               /\ last.ret = "dest" /\ dest = last.before
       /\ last.requests > 0
            => \/ last.before = "missing"
               \/ /\ last.checksum # "None"
                  /\ _sha256(last.before) # last.checksum

C25_Witness ==
  /\ last.op = "download_if_needed"
  /\ last.before = "v1" /\ last.checksum = _sha256("v1")
  /\ last.remote = "v2"
  /\ last.requests = 0 /\ last.ret = "dest" /\ dest = "v1"

(* C28: a transfer that fails (the request, or a write part-way through    *)
(* the stream) raises DownloadError and leaves no partially written file   *)
(* at dest.                                                                *)
C28_FailedTransferLeavesNoPartialFile ==
  (/\ last.op = "download_if_needed"
   /\ last.fault # "none" /\ last.result = "DownloadError")
    => dest \notin {Truncated(c) : c \in RemoteContents}

(* C26: config and container stay consistent.  Every successful install,   *)
(* update, start, stop or restart that begins in a state where the         *)
(* container (if any) has the image and host port recorded in the config   *)
(* ends in such a state.                                                   *)
C26_ConfigMatchesContainer ==
  [][(/\ (config.valid /\ container.exists)
            => container.image = config.image /\ container.port = config.port
      /\ last'.result = "ok"
      /\ last'.op \in {"install", "update", "start", "start_container",
                       "stop", "stop_container", "restart"})
       => ((config'.valid /\ container'.exists)
             => /\ container'.image = config'.image
                /\ container'.port = config'.port)]_vars

(* C27: update called while there is no config file raises InstallerError  *)
(* and makes no mutating call: nothing is pulled, written, stopped,        *)
(* removed, restarted or run.                                              *)
C27_UpdateNeedsInstall ==
  [][(last'.op = "update" /\ ~config.exists)
       => last'.result = "InstallerError" /\ last'.calls = <<>>]_vars

(* C29: Installer(runtime='podman') ends with runtime 'podman' and the     *)
(* client _get_podman_client gives, whether or not docker.from_env()       *)
(* succeeded (given that the Podman client can be created);                *)
(* Installer(runtime='docker') ends with runtime 'podman' only when        *)
(* docker.from_env() failed and podman is installed, and otherwise keeps   *)
(* the Docker client or raises.  Stated of the __init__ that takes a       *)
(* runtime.                                                                *)
C29_RuntimeSelection ==
  (last.op = "Installer" /\ last.variant = "head")
    => /\ (last.arg = "podman" /\ last.env.podman_client)
            => /\ last.result = "none"
               /\ last.runtime = "podman"
               /\ last.client = _get_podman_client(last.env)
       /\ (last.arg = "docker" /\ last.result = "none")
            => IF ~last.env.from_env /\ last.env.podman
                 THEN /\ last.runtime = "podman"
                      /\ last.client = _get_podman_client(last.env)
                 ELSE /\ last.runtime = "docker"
                      /\ last.client = FromEnvClient(last.env)
       /\ (last.arg = "docker" /\ last.result # "none") => ~last.env.from_env

(* C30: registering the log handler is idempotent: logger.handlers never   *)
(* holds two RotatingFileHandlers of the same file, and after a            *)
(* construction or a _setup_logger call it holds one for the log file of   *)
(* that call.                                                              *)
C30_OneHandlerPerLogFile ==
  /\ \A i, j \in 1..Len(handlers) : handlers[i] = handlers[j] => i = j
  /\ (last.op = "_setup_logger"
        \/ (last.op = "Installer" /\ last.result = "none"))
       => \E i \in 1..Len(handlers) : handlers[i] = NormPath(last.log_file)

====
